---- MODULE Spec2Model ----
(***************************************************************************)
(* Model of the landscaping contractor application                         *)
(* (src/landscaping_app/app.py): the SQLite tables as state, one action    *)
(* per POST handler, each handler executed as one step.                    *)
(***************************************************************************)
EXTENDS Integers, Sequences, FiniteSets, TLC

(* ------------------------------------------------------------------ *)
(* Bounds of the model                                                  *)
(* ------------------------------------------------------------------ *)
MaxClients == 1
MaxCrews == 1
MaxMembers == 1
MaxJobs == 2
MaxQuotes == 2
MaxPayments == 2
MaxTasks == 1

(* ------------------------------------------------------------------ *)
(* Values                                                               *)
(* ------------------------------------------------------------------ *)
\* SQL NULL of a TEXT column and of an INTEGER/REAL column
NULL == "NULL"
NullNum == -1

\* identifiers a caller may pass: those the store has handed out or may
\* hand out, and one more that never exists
ClientIds == 1..(MaxClients + 1)
CrewIds == 1..(MaxCrews + 1)
MemberIds == 1..(MaxMembers + 1)
JobIds == 1..MaxJobs
QuoteIds == 1..MaxQuotes
TaskIds == 1..MaxTasks

\* values of datetime.utcnow() (whole seconds)
Time1 == "2024-06-01T08:00:00"
Time2 == "2024-06-02T08:00:00"
Times == {Time1, Time2}

\* description / estimated_hours / estimated_cost of a form submission
Detail1 == [description |-> "mow", estimated_hours |-> 2, estimated_cost |-> 100]
Detail2 == [description |-> "trim", estimated_hours |-> 3, estimated_cost |-> 150]
Details == {Detail1, Detail2}

\* actual_hours / actual_cost of a completion form
Actual1 == [actual_hours |-> 1, actual_cost |-> 1]
Actual2 == [actual_hours |-> 2, actual_cost |-> 2]
Actuals == {Actual1, Actual2}

\* scheduled_date strings of a job form
DateInputs == {"2024-05-01", "garbage"}

\* status strings a caller may post
StatusInputs == {"Scheduled", "In progress", "Completed", "Cancelled"}

\* payment amounts and methods a caller may post
Amounts == {-1, 0, 1}
MethodInputs == {"Cash", "Bitcoin"}

\* member_ids lists of a job form: None, or up to two ids (repeats allowed)
MemberLists == {<<>>} \cup {<<m>> : m \in MemberIds}
                 \cup {<<m, n>> : m \in MemberIds, n \in MemberIds}

\* the member_ids lists the job-editing specification posts
EditLists == {<<>>, <<1>>, <<1, 2>>, <<1, 1>>}

\* crew_id of a job form: None, 0, or an id
CrewInputs == {NullNum, 0} \cup CrewIds

\* the requests that may be handled at the same time (worker threads)
Procs == {1, 2}

VARIABLES
    clients,      \* ids of the rows of table clients
    crews,        \* ids of the rows of table crews
    members,      \* ids of the rows of table members
    seq,          \* sqlite_sequence: last AUTOINCREMENT id of clients/crews/members
    jobs,         \* table jobs, jobs[i] the row with id i (rows are never deleted)
    quotes,       \* table quotes, quotes[i] the row with id i
    payments,     \* table payments, in insertion order
    tasks,        \* table tasks, tasks[i] the row with id i
    job_members,  \* table job_members: set of <<job_id, member_id>>
    calls         \* the requests being handled step by step: calls[p] is the
                  \* position and the local variables of request p

vars == <<clients, crews, members, seq, jobs, quotes, payments, tasks, job_members, calls>>

(* ------------------------------------------------------------------ *)
(* Conversions                                                          *)
(* ------------------------------------------------------------------ *)
\* datetime.fromisoformat(s).isoformat(); "ValueError" when s does not parse
FromIsoformat(s) ==
    CASE s = "2024-05-01" -> "2024-05-01T00:00:00"
      [] s = "2024-05-01T00:00:00" -> "2024-05-01T00:00:00"
      [] OTHER -> "ValueError"

\* now.strftime("%Y-%m-%dT%H:%M:%S")
Strftime(now) == now

\* now.isoformat() + "Z"
IsoformatZ(now) == now \o "Z"

\* cid = int(crew_id) if crew_id and str(crew_id).strip() else None
CrewIdOf(crew_id) == IF crew_id = NullNum \/ crew_id = 0 THEN NullNum ELSE crew_id

\* float(job["actual_cost"] or 0)
CostOrZero(actual_cost) == IF actual_cost = NullNum \/ actual_cost = 0 THEN 0 ELSE actual_cost

RECURSIVE SumAmounts(_, _)
\* SELECT COALESCE(SUM(amount), 0) FROM payments WHERE job_id = ?
SumAmounts(ps, job_id) ==
    IF ps = <<>> THEN 0
    ELSE (IF Head(ps).job_id = job_id THEN Head(ps).amount ELSE 0)
         + SumAmounts(Tail(ps), job_id)

\* the elements of a list
Range(s) == {s[i] : i \in DOMAIN s}

\* a list without repeated elements
NoRepeat(s) == \A i, k \in DOMAIN s : s[i] = s[k] => i = k

(* ------------------------------------------------------------------ *)
(* Rows and lookups                                                     *)
(* ------------------------------------------------------------------ *)
\* INSERT INTO jobs (...): the columns not named get their defaults
JobRow(client_id, description, scheduled_date, crew, crew_id, estimated_hours, estimated_cost, status) ==
    [client_id |-> client_id, description |-> description,
     scheduled_date |-> scheduled_date, crew |-> crew, crew_id |-> crew_id,
     estimated_hours |-> estimated_hours, estimated_cost |-> estimated_cost,
     actual_hours |-> NullNum, actual_cost |-> NullNum, status |-> status,
     invoice_sent_at |-> NULL, invoice_status |-> NULL, paid_at |-> NULL,
     on_my_way_sent_at |-> NULL]

\* INSERT INTO quotes (...) VALUES (..., 'Draft', ?, ?)
QuoteRow(client_id, d, created_at) ==
    [client_id |-> client_id, description |-> d.description,
     estimated_hours |-> d.estimated_hours, estimated_cost |-> d.estimated_cost,
     status |-> "Draft", created_at |-> created_at, job_id |-> NullNum]

\* fetch_client / fetch_crew / fetch_member: TRUE when the row is found, FALSE
\* when the handler raises 404
fetch_client(c) == c \in clients
fetch_crew(c) == c \in crews
fetch_member(m) == m \in members

\* fetch_quote: quotes JOIN clients (no row when the client row is missing)
fetch_quote(q) == q \in DOMAIN quotes /\ quotes[q].client_id \in clients

\* fetch_job: jobs JOIN clients LEFT JOIN crews (no row when the client row is missing)
fetch_job(j) == j \in DOMAIN jobs /\ jobs[j].client_id \in clients

\* SELECT id FROM jobs ORDER BY id DESC LIMIT 1
LastJobId(js) == Len(js)

\* the response of a handler: HTTP status, the detail of an HTTPException
\* (or the error flag of a redirect), the id the redirect URL names (0: none)
Response(code, detail, ret) == [code |-> code, detail |-> detail, ret |-> ret]
Redirect(ret) == Response(303, "", ret)

\* the quote field of a request slot that read no quote
NoQuote ==
    QuoteRow(0, [description |-> NULL, estimated_hours |-> 0, estimated_cost |-> 0], NULL)

\* a request slot with no request in it.  pc: the position of the request;
\* id: the job or quote id of its URL; now, amount, method: its inputs;
\* cost, quote: what its first read returned; total, job_id: the results
\* of its SELECTs; created: the id the store gave the row it inserted;
\* response: its response once it is done
IdleCall ==
    [pc |-> "idle", id |-> 0, now |-> NULL, amount |-> 0, method |-> NULL,
     cost |-> NullNum, quote |-> NoQuote, total |-> 0, job_id |-> 0,
     created |-> 0, response |-> Response(0, "", 0)]

Init ==
    /\ calls = [p \in Procs |-> IdleCall]
    /\ clients = {}
    /\ crews = {}
    /\ members = {}
    /\ seq = [clients |-> 0, crews |-> 0, members |-> 0]
    /\ jobs = <<>>
    /\ quotes = <<>>
    /\ payments = <<>>
    /\ tasks = <<>>
    /\ job_members = {}

(* ------------------------------------------------------------------ *)
(* Clients, crews, members                                              *)
(* ------------------------------------------------------------------ *)
create_client ==
    /\ seq.clients < MaxClients
    /\ clients' = clients \cup {seq.clients + 1}
    /\ seq' = [seq EXCEPT !.clients = @ + 1]
    /\ UNCHANGED <<crews, members, jobs, quotes, payments, tasks, job_members, calls>>

\* delete_client without its count of the client's jobs
JobCountSkipped(c) == 0

\* SELECT COUNT(*) FROM jobs WHERE client_id = ?
JobCount(c) == Cardinality({j \in DOMAIN jobs : jobs[j].client_id = c})

delete_client_response(c) ==
    IF ~fetch_client(c) THEN Response(404, "Client not found", 0)
    ELSE IF JobCount(c) > 0 THEN Response(303, "has_jobs", c)
    ELSE Redirect(0)

delete_client(c) ==
    IF delete_client_response(c) # Redirect(0)
    THEN UNCHANGED vars
    ELSE /\ clients' = clients \ {c}
         /\ UNCHANGED <<crews, members, seq, jobs, quotes, payments, tasks, job_members, calls>>

create_crew ==
    /\ seq.crews < MaxCrews
    /\ crews' = crews \cup {seq.crews + 1}
    /\ seq' = [seq EXCEPT !.crews = @ + 1]
    /\ UNCHANGED <<clients, members, jobs, quotes, payments, tasks, job_members, calls>>

delete_crew_response(c) ==
    IF ~fetch_crew(c) THEN Response(404, "Crew not found", 0) ELSE Redirect(0)

\* delete_crew without its UPDATE of the jobs of the crew
delete_crew_rows_only(c) ==
    IF delete_crew_response(c).code # 303
    THEN UNCHANGED vars
    ELSE /\ crews' = crews \ {c}
         /\ UNCHANGED <<clients, members, seq, jobs, quotes, payments, tasks, job_members, calls>>

delete_crew(c) ==
    IF delete_crew_response(c).code # 303
    THEN UNCHANGED vars
    ELSE /\ jobs' = [j \in DOMAIN jobs |->
                        IF jobs[j].crew_id = c
                        THEN [jobs[j] EXCEPT !.crew_id = NullNum] ELSE jobs[j]]
         /\ crews' = crews \ {c}
         /\ UNCHANGED <<clients, members, seq, quotes, payments, tasks, job_members, calls>>

create_member ==
    /\ seq.members < MaxMembers
    /\ members' = members \cup {seq.members + 1}
    /\ seq' = [seq EXCEPT !.members = @ + 1]
    /\ UNCHANGED <<clients, crews, jobs, quotes, payments, tasks, job_members, calls>>

delete_member_response(m) ==
    IF ~fetch_member(m) THEN Response(404, "Member not found", 0) ELSE Redirect(0)

\* delete_member without its DELETE of the roster rows of the member
delete_member_rows_only(m) ==
    IF delete_member_response(m).code # 303
    THEN UNCHANGED vars
    ELSE /\ members' = members \ {m}
         /\ UNCHANGED <<clients, crews, seq, jobs, quotes, payments, tasks, job_members, calls>>

delete_member(m) ==
    IF delete_member_response(m).code # 303
    THEN UNCHANGED vars
    ELSE /\ job_members' = {jm \in job_members : jm[2] # m}
         /\ members' = members \ {m}
         /\ UNCHANGED <<clients, crews, seq, jobs, quotes, payments, tasks, calls>>

(* ------------------------------------------------------------------ *)
(* Quotes                                                               *)
(* ------------------------------------------------------------------ *)
create_quote_response(client_id) ==
    IF ~fetch_client(client_id) THEN Response(404, "Client not found", 0)
    ELSE Redirect(Len(quotes) + 1)

create_quote(client_id, d, now) ==
    IF create_quote_response(client_id).code # 303
    THEN UNCHANGED vars
    ELSE /\ Len(quotes) < MaxQuotes
         /\ quotes' = Append(quotes, QuoteRow(client_id, d, IsoformatZ(now)))
         /\ UNCHANGED <<clients, crews, members, seq, jobs, payments, tasks, job_members, calls>>

\* the job accept_quote inserts for a quote row
AcceptedJob(quote, now) ==
    JobRow(quote.client_id, quote.description, Strftime(now), "", NullNum,
           quote.estimated_hours, quote.estimated_cost, "Scheduled")

\* the jobs table after accept_quote's INSERT
JobsAfterAccept(quote, now) == Append(jobs, AcceptedJob(quote, now))

\* accept_quote without its check for an already accepted quote
AcceptBranchNoRetry(q) ==
    IF ~fetch_quote(q) THEN "missing"
    ELSE IF quotes[q].status = "Declined" THEN "declined"
    ELSE "create"

\* the branch accept_quote takes: "missing", "again", "declined" or "create"
AcceptBranch(q) ==
    IF ~fetch_quote(q) THEN "missing"
    ELSE IF quotes[q].status = "Accepted" THEN "again"
    ELSE IF quotes[q].status = "Declined" THEN "declined"
    ELSE "create"

accept_quote_response(q, now) ==
    CASE AcceptBranch(q) = "missing" -> Response(404, "Quote not found", 0)
      [] AcceptBranch(q) = "again" -> Redirect(quotes[q].job_id)
      [] AcceptBranch(q) = "declined" -> Response(400, "Cannot accept a declined quote", 0)
      [] OTHER -> Redirect(LastJobId(JobsAfterAccept(quotes[q], now)))

accept_quote(q, now) ==
    IF AcceptBranch(q) # "create"
    THEN UNCHANGED vars
    ELSE /\ Len(jobs) < MaxJobs
         /\ jobs' = JobsAfterAccept(quotes[q], now)
         /\ quotes' = [quotes EXCEPT ![q].status = "Accepted",
                                     ![q].job_id = LastJobId(jobs')]
         /\ UNCHANGED <<clients, crews, members, seq, payments, tasks, job_members, calls>>

\* decline_quote without its check of the quote's status
decline_quote_response_unchecked(q) ==
    IF ~fetch_quote(q) THEN Response(404, "Quote not found", 0) ELSE Redirect(q)

decline_quote_response(q) ==
    IF ~fetch_quote(q) THEN Response(404, "Quote not found", 0)
    ELSE IF quotes[q].status \notin {"Draft", "Sent"}
    THEN Response(400, "Quote already accepted or declined", 0)
    ELSE Redirect(q)

decline_quote(q) ==
    IF decline_quote_response(q).code # 303
    THEN UNCHANGED vars
    ELSE /\ quotes' = [quotes EXCEPT ![q].status = "Declined"]
         /\ UNCHANGED <<clients, crews, members, seq, jobs, payments, tasks, job_members, calls>>

send_quote_response(q) ==
    IF ~fetch_quote(q) THEN Response(404, "Quote not found", 0)
    ELSE IF quotes[q].status # "Draft"
    THEN Response(400, "Only draft quotes can be marked as sent", 0)
    ELSE Redirect(q)

send_quote(q) ==
    IF send_quote_response(q).code # 303
    THEN UNCHANGED vars
    ELSE /\ quotes' = [quotes EXCEPT ![q].status = "Sent"]
         /\ UNCHANGED <<clients, crews, members, seq, jobs, payments, tasks, job_members, calls>>

(* ------------------------------------------------------------------ *)
(* Jobs                                                                 *)
(* ------------------------------------------------------------------ *)
\* the job_members rows a form's member_ids list inserts for a job
RosterRows(job_id, member_ids) == {<<job_id, m>> : m \in Range(member_ids)}

\* the row create_job inserts
CreatedJob(client_id, d, scheduled_date, crew, crew_id) ==
    JobRow(client_id, d.description, FromIsoformat(scheduled_date), crew,
           CrewIdOf(crew_id), d.estimated_hours, d.estimated_cost, "Scheduled")

\* a repeated member id violates the primary key of job_members
create_job_response(scheduled_date, member_ids) ==
    IF FromIsoformat(scheduled_date) = "ValueError" THEN Response(400, "Invalid date", 0)
    ELSE IF ~NoRepeat(member_ids) THEN Response(500, "IntegrityError", 0)
    ELSE Redirect(0)

create_job(client_id, d, scheduled_date, crew, crew_id, member_ids) ==
    IF create_job_response(scheduled_date, member_ids).code = 400
    THEN UNCHANGED vars
    ELSE /\ Len(jobs) < MaxJobs
         \* the job is committed before the roster is inserted; an
         \* IntegrityError rolls back the roster only
         /\ jobs' = Append(jobs, CreatedJob(client_id, d, scheduled_date, crew, crew_id))
         /\ job_members' = IF create_job_response(scheduled_date, member_ids).code = 303
                           THEN job_members \cup RosterRows(Len(jobs) + 1, member_ids)
                           ELSE job_members
         /\ UNCHANGED <<clients, crews, members, seq, quotes, payments, tasks, calls>>

\* UPDATE jobs SET client_id = ?, description = ?, scheduled_date = ?, crew = ?, crew_id = ?, ...
EditedJob(job, client_id, d, scheduled_date, crew, crew_id) ==
    [job EXCEPT !.client_id = client_id, !.description = d.description,
                !.scheduled_date = FromIsoformat(scheduled_date), !.crew = crew,
                !.crew_id = CrewIdOf(crew_id),
                !.estimated_hours = d.estimated_hours,
                !.estimated_cost = d.estimated_cost]

\* the UPDATE, the DELETE and the INSERTs are one transaction: an
\* IntegrityError rolls all of them back
update_job_response(j, scheduled_date, member_ids) ==
    IF ~fetch_job(j) THEN Response(404, "Job not found", 0)
    ELSE IF jobs[j].status = "Completed" THEN Response(400, "Cannot edit a completed job", 0)
    ELSE IF FromIsoformat(scheduled_date) = "ValueError" THEN Response(400, "Invalid date", 0)
    ELSE IF ~NoRepeat(member_ids) THEN Response(500, "IntegrityError", 0)
    ELSE Redirect(j)

update_job(j, client_id, d, scheduled_date, crew, crew_id, member_ids) ==
    IF update_job_response(j, scheduled_date, member_ids).code # 303
    THEN UNCHANGED vars
    ELSE /\ jobs' = [jobs EXCEPT ![j] = EditedJob(@, client_id, d, scheduled_date, crew, crew_id)]
         /\ job_members' = {jm \in job_members : jm[1] # j} \cup RosterRows(j, member_ids)
         /\ UNCHANGED <<clients, crews, members, seq, quotes, payments, tasks, calls>>

notify_customer_response(j) ==
    IF ~fetch_job(j) THEN Response(404, "Job not found", 0) ELSE Redirect(j)

notify_customer(j, now) ==
    IF notify_customer_response(j).code # 303
    THEN UNCHANGED vars
    ELSE /\ jobs' = [jobs EXCEPT ![j].on_my_way_sent_at = IsoformatZ(now)]
         /\ UNCHANGED <<clients, crews, members, seq, quotes, payments, tasks, job_members, calls>>

add_task_response(j) == Redirect(j)

add_task(j) ==
    /\ Len(tasks) < MaxTasks
    /\ tasks' = Append(tasks, [job_id |-> j, completed |-> 0])
    /\ UNCHANGED <<clients, crews, members, seq, jobs, quotes, payments, job_members, calls>>

toggle_task_response(t) ==
    IF t \notin DOMAIN tasks THEN Response(404, "Task not found", 0)
    ELSE Redirect(tasks[t].job_id)

toggle_task(t) ==
    IF toggle_task_response(t).code # 303
    THEN UNCHANGED vars
    ELSE /\ tasks' = [tasks EXCEPT ![t].completed = IF @ # 0 THEN 0 ELSE 1]
         /\ UNCHANGED <<clients, crews, members, seq, jobs, quotes, payments, job_members, calls>>

\* update_job_status taking every posted status string
AllowedStatusesAny == StatusInputs

\* allowed_statuses of update_job_status
allowed_statuses == {"Scheduled", "In progress", "Completed"}

update_job_status_response(j, status) ==
    IF status \notin allowed_statuses THEN Response(400, "Invalid status", 0)
    ELSE Redirect(j)

\* update_job_status filling the actuals from the estimates on Completed
update_job_status_filling(j, status) ==
    IF update_job_status_response(j, status).code # 303
    THEN UNCHANGED vars
    ELSE /\ jobs' = [i \in DOMAIN jobs |->
                        IF i # j THEN jobs[i]
                        ELSE IF status # "Completed" THEN [jobs[i] EXCEPT !.status = status]
                        ELSE [jobs[i] EXCEPT !.status = status,
                                             !.actual_hours = jobs[i].estimated_hours,
                                             !.actual_cost = jobs[i].estimated_cost]]
         /\ UNCHANGED <<clients, crews, members, seq, quotes, payments, tasks, job_members, calls>>

\* UPDATE jobs SET status = ? WHERE id = ?
update_job_status(j, status) ==
    IF update_job_status_response(j, status).code # 303
    THEN UNCHANGED vars
    ELSE /\ jobs' = [i \in DOMAIN jobs |->
                        IF i = j THEN [jobs[i] EXCEPT !.status = status] ELSE jobs[i]]
         /\ UNCHANGED <<clients, crews, members, seq, quotes, payments, tasks, job_members, calls>>

complete_job_response(j, status) == Redirect(j)

\* UPDATE jobs SET status = ?, actual_hours = ?, actual_cost = ? WHERE id = ?
complete_job(j, a, status) ==
    /\ jobs' = [i \in DOMAIN jobs |->
                   IF i = j THEN [jobs[i] EXCEPT !.status = status,
                                                 !.actual_hours = a.actual_hours,
                                                 !.actual_cost = a.actual_cost]
                   ELSE jobs[i]]
    /\ UNCHANGED <<clients, crews, members, seq, quotes, payments, tasks, job_members, calls>>

(* ------------------------------------------------------------------ *)
(* Invoices and payments                                                *)
(* ------------------------------------------------------------------ *)
mark_invoice_sent_response(j) ==
    IF ~fetch_job(j) THEN Response(404, "Job not found", 0)
    ELSE IF jobs[j].status # "Completed" THEN Response(400, "Job must be completed first", 0)
    ELSE Redirect(j)

\* UPDATE jobs SET invoice_sent_at = ?, invoice_status = 'Sent' WHERE id = ?
mark_invoice_sent(j, now) ==
    IF mark_invoice_sent_response(j).code # 303
    THEN UNCHANGED vars
    ELSE /\ jobs' = [jobs EXCEPT ![j].invoice_sent_at = IsoformatZ(now),
                                 ![j].invoice_status = "Sent"]
         /\ UNCHANGED <<clients, crews, members, seq, quotes, payments, tasks, job_members, calls>>

\* allowed_methods of add_payment
allowed_methods == {"Cash", "Check", "Card", "Other"}

add_payment_response(j, method) ==
    IF ~fetch_job(j) THEN Response(404, "Job not found", 0)
    ELSE IF jobs[j].status # "Completed" THEN Response(400, "Job must be completed first", 0)
    ELSE IF method \notin allowed_methods THEN Response(400, "Invalid payment method", 0)
    ELSE Redirect(j)

\* add_payment rewriting the status from an exact match of total and cost
ReconciledExact(job, total, paid_at) ==
    IF total = CostOrZero(job.actual_cost)
    THEN [job EXCEPT !.invoice_status = "Paid", !.paid_at = paid_at]
    ELSE [job EXCEPT !.invoice_status = "Sent"]

\* add_payment comparing with > where the code has >=
ReconciledStrict(job, total, paid_at) ==
    IF total > CostOrZero(job.actual_cost)
    THEN [job EXCEPT !.invoice_status = "Paid", !.paid_at = paid_at]
    ELSE job

\* the job row after add_payment's recomputation: total is the sum of the
\* job's payments after the insert, job the row read before it
Reconciled(job, total, paid_at) ==
    IF total >= CostOrZero(job.actual_cost)
    THEN [job EXCEPT !.invoice_status = "Paid", !.paid_at = paid_at]
    ELSE job

\* add_payment keeping one payment row per job: a later payment replaces it
add_payment_replacing(j, amount, method, now) ==
    IF add_payment_response(j, method).code # 303
    THEN UNCHANGED vars
    ELSE /\ Len(payments) < MaxPayments
         /\ payments' = Append(SelectSeq(payments, LAMBDA r : r.job_id # j),
                               [job_id |-> j, amount |-> amount,
                                method |-> method, paid_at |-> IsoformatZ(now)])
         /\ jobs' = [jobs EXCEPT ![j] = Reconciled(@, SumAmounts(payments', j), IsoformatZ(now))]
         /\ UNCHANGED <<clients, crews, members, seq, quotes, tasks, job_members, calls>>

add_payment(j, amount, method, now) ==
    IF add_payment_response(j, method).code # 303
    THEN UNCHANGED vars
    ELSE /\ Len(payments) < MaxPayments
         /\ payments' = Append(payments, [job_id |-> j, amount |-> amount,
                                          method |-> method, paid_at |-> IsoformatZ(now)])
         /\ jobs' = [jobs EXCEPT ![j] = Reconciled(@, SumAmounts(payments', j), IsoformatZ(now))]
         /\ UNCHANGED <<clients, crews, members, seq, quotes, tasks, job_members, calls>>

(* ------------------------------------------------------------------ *)
(* Requests handled at the same time                                    *)
(*                                                                      *)
(* FastAPI runs these handlers in worker threads.  Every statement is   *)
(* executed and committed on its own, so the statements of one request  *)
(* are separate steps between which another request may run.            *)
(* ------------------------------------------------------------------ *)

\* no request is being handled step by step
NoCalls == \A p \in Procs : calls[p].pc = "idle"

\* accept_quote, lines 676-682: fetch_quote and the checks of the status
accept_quote_check(p, q, now) ==
    /\ calls[p].pc = "idle"
    /\ calls' = [calls EXCEPT ![p] =
          IF AcceptBranch(q) = "create"
          THEN [IdleCall EXCEPT !.pc = "accept_insert", !.id = q, !.now = now,
                                !.quote = quotes[q]]
          ELSE [IdleCall EXCEPT !.pc = "done", !.id = q,
                                !.response = accept_quote_response(q, now)]]
    /\ UNCHANGED <<clients, crews, members, seq, jobs, quotes, payments, tasks, job_members>>

\* accept_quote, lines 683-691: INSERT INTO jobs and commit
accept_quote_insert(p) ==
    /\ calls[p].pc = "accept_insert"
    /\ Len(jobs) < MaxJobs
    /\ jobs' = Append(jobs, AcceptedJob(calls[p].quote, calls[p].now))
    /\ calls' = [calls EXCEPT ![p].pc = "accept_select", ![p].created = Len(jobs')]
    /\ UNCHANGED <<clients, crews, members, seq, quotes, payments, tasks, job_members>>

\* accept_quote, lines 692-693: SELECT id FROM jobs ORDER BY id DESC LIMIT 1
accept_quote_select(p) ==
    /\ calls[p].pc = "accept_select"
    /\ calls' = [calls EXCEPT ![p].pc = "accept_update", ![p].job_id = LastJobId(jobs)]
    /\ UNCHANGED <<clients, crews, members, seq, jobs, quotes, payments, tasks, job_members>>

\* accept_quote, lines 694-699: UPDATE quotes, commit, and the redirect
accept_quote_update(p) ==
    /\ calls[p].pc = "accept_update"
    /\ quotes' = [i \in DOMAIN quotes |->
                     IF i = calls[p].id
                     THEN [quotes[i] EXCEPT !.status = "Accepted", !.job_id = calls[p].job_id]
                     ELSE quotes[i]]
    /\ calls' = [calls EXCEPT ![p].pc = "done", ![p].response = Redirect(calls[p].job_id)]
    /\ UNCHANGED <<clients, crews, members, seq, jobs, payments, tasks, job_members>>

\* add_payment, lines 1073-1079: fetch_job and the checks
add_payment_check(p, j, amount, method, now) ==
    /\ calls[p].pc = "idle"
    /\ calls' = [calls EXCEPT ![p] =
          IF add_payment_response(j, method).code = 303
          THEN [IdleCall EXCEPT !.pc = "payment_insert", !.id = j, !.now = IsoformatZ(now),
                                !.amount = amount, !.method = method,
                                !.cost = jobs[j].actual_cost]
          ELSE [IdleCall EXCEPT !.pc = "done", !.id = j,
                                !.response = add_payment_response(j, method)]]
    /\ UNCHANGED <<clients, crews, members, seq, jobs, quotes, payments, tasks, job_members>>

\* add_payment, lines 1081-1085: INSERT INTO payments and commit
add_payment_insert(p) ==
    /\ calls[p].pc = "payment_insert"
    /\ Len(payments) < MaxPayments
    /\ payments' = Append(payments, [job_id |-> calls[p].id, amount |-> calls[p].amount,
                                     method |-> calls[p].method, paid_at |-> calls[p].now])
    /\ calls' = [calls EXCEPT ![p].pc = "payment_total", ![p].created = Len(payments')]
    /\ UNCHANGED <<clients, crews, members, seq, jobs, quotes, tasks, job_members>>

\* add_payment, lines 1086-1088: SELECT COALESCE(SUM(amount), 0)
add_payment_total(p) ==
    /\ calls[p].pc = "payment_total"
    /\ calls' = [calls EXCEPT ![p].pc = "payment_update",
                              ![p].total = SumAmounts(payments, calls[p].id)]
    /\ UNCHANGED <<clients, crews, members, seq, jobs, quotes, payments, tasks, job_members>>

\* the invoice_status and paid_at add_payment's last step leaves in a job
\* row: the comparison reads the actual_cost the request fetched at its start
UpdatedInvoice(job, call) ==
    Reconciled([job EXCEPT !.actual_cost = call.cost], call.total, call.now)

\* add_payment's last step writing Sent when its total is below the cost
add_payment_update_rewriting(p) ==
    /\ calls[p].pc = "payment_update"
    /\ jobs' = [i \in DOMAIN jobs |->
                   IF i # calls[p].id THEN jobs[i]
                   ELSE IF calls[p].total >= CostOrZero(calls[p].cost)
                   THEN [jobs[i] EXCEPT !.invoice_status = "Paid", !.paid_at = calls[p].now]
                   ELSE [jobs[i] EXCEPT !.invoice_status = "Sent"]]
    /\ calls' = [calls EXCEPT ![p].pc = "done", ![p].response = Redirect(calls[p].id)]
    /\ UNCHANGED <<clients, crews, members, seq, quotes, payments, tasks, job_members>>

\* add_payment, lines 1089-1096: the comparison, UPDATE jobs, and the redirect
add_payment_update(p) ==
    /\ calls[p].pc = "payment_update"
    /\ jobs' = [i \in DOMAIN jobs |->
                   IF i = calls[p].id
                   THEN [jobs[i] EXCEPT
                            !.invoice_status = UpdatedInvoice(jobs[i], calls[p]).invoice_status,
                            !.paid_at = UpdatedInvoice(jobs[i], calls[p]).paid_at]
                   ELSE jobs[i]]
    /\ calls' = [calls EXCEPT ![p].pc = "done", ![p].response = Redirect(calls[p].id)]
    /\ UNCHANGED <<clients, crews, members, seq, quotes, payments, tasks, job_members>>

(* ------------------------------------------------------------------ *)
(* Specifications                                                       *)
(*                                                                      *)
(* The handlers run one at a time (one request, one step).  Each        *)
(* specification starts from the empty database and takes the handlers  *)
(* of one part of the application, with the inputs that part reads.     *)
(* ------------------------------------------------------------------ *)

\* quote workflow: clients, quotes, and the two handlers that insert jobs
QuoteNext ==
    \/ create_client
    \/ \E c \in ClientIds : delete_client(c)
    \/ \E c \in ClientIds, d \in Details, now \in Times : create_quote(c, d, now)
    \/ \E q \in QuoteIds, now \in Times : accept_quote(q, now)
    \/ \E q \in QuoteIds : decline_quote(q)
    \/ \E q \in QuoteIds : send_quote(q)
    \/ \E c \in ClientIds, d \in Details :
          create_job(c, d, "2024-05-01", "Team A", NullNum, <<>>)

SpecQuote == Init /\ [][QuoteNext]_vars

\* job lifecycle and billing: status changes, completion, invoices, payments
\* (a job posted for client 1 before that client exists is a job whose
\* client is missing)
BillingNext ==
    \/ create_client
    \/ \E c \in 1..MaxClients : delete_client(c)
    \/ \E c \in 1..MaxClients, s \in DateInputs :
          create_job(c, Detail1, s, "Team A", NullNum, <<>>)
    \/ \E j \in JobIds, s \in StatusInputs : update_job_status(j, s)
    \/ \E j \in JobIds, a \in Actuals, s \in StatusInputs : complete_job(j, a, s)
    \/ \E j \in JobIds : mark_invoice_sent(j, Time1)
    \/ \E j \in JobIds, x \in Amounts, m \in MethodInputs, now \in Times : add_payment(j, x, m, now)

SpecBilling == Init /\ [][BillingNext]_vars

\* job editing: the job form, the roster, completion
EditNext ==
    \/ create_client
    \/ \E c \in ClientIds, d \in Details, s \in DateInputs, w \in {0, 1}, ms \in EditLists :
          create_job(c, d, s, "Team A", w, ms)
    \/ \E j \in JobIds, c \in ClientIds, d \in Details, s \in DateInputs,
          w \in {0, 1}, ms \in EditLists : update_job(j, c, d, s, "", w, ms)
    \/ \E j \in JobIds : update_job_status(j, "Completed")
    \/ \E j \in JobIds : complete_job(j, Actual1, "Completed")

SpecEdit == Init /\ [][EditNext]_vars

\* reference data and what hangs off a job: deletes, tasks, notifications
CascadeNext ==
    \/ create_client
    \/ \E c \in ClientIds : delete_client(c)
    \/ create_crew
    \/ \E c \in CrewIds : delete_crew(c)
    \/ create_member
    \/ \E m \in MemberIds : delete_member(m)
    \/ \E c \in ClientIds, w \in CrewInputs, ms \in MemberLists :
          create_job(c, Detail1, "2024-05-01", "Team A", w, ms)
    \/ \E j \in JobIds : notify_customer(j, Time1)
    \/ \E j \in JobIds : add_task(j)
    \/ \E t \in TaskIds : toggle_task(t)

SpecCascade == Init /\ [][CascadeNext]_vars

\* the columns of a job: every handler that inserts or writes a job row,
\* with one client, one crew, one member, one quote and one payment; the
\* form, the notification and the billing handlers are run on job 1
ActualsNext ==
    \/ create_client
    \/ create_crew
    \/ create_member
    \/ delete_client(1)
    \/ delete_crew(1)
    \/ delete_member(1)
    \/ Len(quotes) = 0 /\ create_quote(1, Detail1, Time1)
    \/ accept_quote(1, Time1)
    \/ create_job(1, Detail1, "2024-05-01", "Team A", 1, <<1>>)
    \/ update_job(1, 1, Detail2, "2024-05-01", "", 0, <<>>)
    \/ \E j \in JobIds, s \in {"Scheduled", "Completed"} : update_job_status(j, s)
    \/ \E j \in JobIds : complete_job(j, Actual1, "Completed")
    \/ notify_customer(1, Time1)
    \/ mark_invoice_sent(1, Time1)
    \/ Len(payments) = 0 /\ add_payment(1, 1, "Cash", Time1)

SpecActuals == Init /\ [][ActualsNext]_vars

\* two accept requests racing each other and a job form: the quotes are
\* written first, quote 1 with the first description and quote 2 with the second
AcceptRaceNext ==
    \/ NoCalls /\ create_client
    \/ NoCalls /\ create_quote(1, IF Len(quotes) = 0 THEN Detail1 ELSE Detail2, Time1)
    \/ \E q \in QuoteIds : NoCalls /\ (send_quote(q) \/ decline_quote(q))
    \/ create_job(1, Detail2, "2024-05-01", "Team A", NullNum, <<>>)
    \/ \E p \in Procs, q \in QuoteIds, now \in Times : accept_quote_check(p, q, now)
    \/ \E p \in Procs : accept_quote_insert(p)
    \/ \E p \in Procs : accept_quote_select(p)
    \/ \E p \in Procs : accept_quote_update(p)

SpecAcceptRace == Init /\ [][AcceptRaceNext]_vars

\* two payment requests racing each other, on jobs completed and invoiced
\* before the first of them starts
PaymentRaceNext ==
    \/ NoCalls /\ create_client
    \/ NoCalls /\ create_job(1, Detail1, "2024-05-01", "Team A", NullNum, <<>>)
    \/ \E j \in JobIds, a \in Actuals : NoCalls /\ complete_job(j, a, "Completed")
    \/ \E j \in JobIds : NoCalls /\ update_job_status(j, "Completed")
    \/ \E j \in JobIds : NoCalls /\ mark_invoice_sent(j, Time1)
    \/ \E p \in Procs, j \in JobIds, x \in Amounts, m \in MethodInputs, now \in Times :
          add_payment_check(p, j, x, m, now)
    \/ \E p \in Procs : add_payment_insert(p)
    \/ \E p \in Procs : add_payment_total(p)
    \/ \E p \in Procs : add_payment_update(p)

SpecPaymentRace == Init /\ [][PaymentRaceNext]_vars
(* ------------------------------------------------------------------ *)
(* Quote workflow: accept                                               *)
(* ------------------------------------------------------------------ *)

\* the quotes a request can name whose status is Draft or Sent
OpenQuotes == {q \in DOMAIN quotes : quotes[q].status \in {"Draft", "Sent"}}

\* C1: accept twice in sequence is idempotent.  For every quote in Draft
\* or Sent, after a first accept a second accept gets the same response
\* (the same job id) as the first, and an accept that is a second call
\* (the quote is Accepted, or the first call did not find the quote)
\* inserts no job and leaves the quote's status and job_id as they are.
C1_AcceptTwiceIdempotent ==
    \A q \in DOMAIN quotes, now \in Times, again \in Times :
        /\ (q \in OpenQuotes /\ Len(jobs) < MaxJobs) =>
              ENABLED (/\ accept_quote(q, now)
                       /\ (quotes[q].status = "Accepted" \/ ~fetch_quote(q))'
                       /\ accept_quote_response(q, again)' = accept_quote_response(q, now))
        /\ (quotes[q].status = "Accepted" \/ (q \in OpenQuotes /\ ~fetch_quote(q))) =>
              ~ENABLED (accept_quote(q, again) /\ ~UNCHANGED <<jobs, quotes>>)

\* a first accept has created job 1 from quote 1 and a second accept
\* answers with that job
C1_Witness ==
    /\ 1 \in DOMAIN quotes
    /\ quotes[1].status = "Accepted"
    /\ quotes[1].job_id \in DOMAIN jobs
    /\ accept_quote_response(1, Time2) = Redirect(quotes[1].job_id)
    /\ ENABLED (accept_quote(1, Time2) /\ UNCHANGED vars)

\* the row accept inserts carries the quote's client, description and estimates
CarriesQuote(job, quote) ==
    /\ job.client_id = quote.client_id
    /\ job.description = quote.description
    /\ job.estimated_hours = quote.estimated_hours
    /\ job.estimated_cost = quote.estimated_cost
    /\ job.status = "Scheduled"

\* C2: accept on a quote whose status is Draft or Sent creates exactly one
\* new Job carrying the quote's client, description, estimated hours and
\* estimated cost with status Scheduled, and sets the quote's status to
\* Accepted and its job_id to the id of that Job.
C2_AcceptCreatesJob ==
    \A q \in OpenQuotes, now \in Times :
        Len(jobs) < MaxJobs =>
           ENABLED (/\ accept_quote(q, now)
                    /\ Len(jobs') = Len(jobs) + 1
                    /\ SubSeq(jobs', 1, Len(jobs)) = jobs
                    /\ CarriesQuote(jobs'[Len(jobs')], quotes[q])
                    /\ quotes'[q].status = "Accepted"
                    /\ quotes'[q].job_id = Len(jobs'))

(* ------------------------------------------------------------------ *)
(* Billing reconciliation                                               *)
(* ------------------------------------------------------------------ *)

\* the sum of the amounts of the payments ps[i], i in S
RECURSIVE AmountOver(_, _)
AmountOver(ps, S) ==
    IF S = {} THEN 0
    ELSE LET i == CHOOSE k \in S : TRUE
         IN ps[i].amount + AmountOver(ps, S \ {i})

\* totalPaid: the sum of the payments recorded for job j in table ps
TotalPaid(ps, j) == AmountOver(ps, {i \in DOMAIN ps : ps[i].job_id = j})

\* the invoice total of a job: actual_cost, an unset actual_cost counting as 0
InvoiceTotal(job) == IF job.actual_cost = NullNum THEN 0 ELSE job.actual_cost

\* C3: for every Completed job, once the sum of its payments is at least
\* actual_cost and invoice_status is Paid, invoice_status remains Paid
\* after every further recordPayment call with a non-negative amount (on
\* any job), and the job is then again Completed with its payments
\* covering actual_cost, so the same holds of the calls that follow.
C3_PaidStaysUnderPayments ==
    \A j \in DOMAIN jobs :
        (/\ jobs[j].status = "Completed"
         /\ jobs[j].invoice_status = "Paid"
         /\ TotalPaid(payments, j) >= InvoiceTotal(jobs[j]))
        => \A k \in JobIds, x \in Amounts, m \in MethodInputs, now \in Times :
              x >= 0 =>
                 ~ENABLED (/\ add_payment(k, x, m, now)
                           /\ ~(/\ jobs'[j].invoice_status = "Paid"
                                /\ jobs'[j].status = "Completed"
                                /\ TotalPaid(payments', j) >= InvoiceTotal(jobs'[j])))

\* a Completed job was paid in full by its first payment and has received
\* a further non-negative payment
C3_Witness ==
    \E j \in DOMAIN jobs :
        /\ jobs[j].status = "Completed"
        /\ jobs[j].invoice_status = "Paid"
        /\ Len(payments) = 2
        /\ payments[1].job_id = j /\ payments[2].job_id = j
        /\ payments[1].amount >= InvoiceTotal(jobs[j])
        /\ InvoiceTotal(jobs[j]) > 0
        /\ payments[2].amount = 0

\* C4: once a job's invoice_status is Paid, no operation changes it back
\* to Sent or to null.
C4_PaidIsLatch ==
    [][\A j \in DOMAIN jobs :
          jobs[j].invoice_status = "Paid" => jobs'[j].invoice_status = "Paid"]_vars

\* the table payments after one row for job j, amount x and time now is appended
OnePaymentMore(ps, j, x, m, now) ==
    Append(ps, [job_id |-> j, amount |-> x, method |-> m, paid_at |-> IsoformatZ(now)])

\* C5: a successful recordPayment on a Completed job appends one Payment,
\* and sets invoice_status to Paid and paid_at to the payment's time exactly
\* when the sum of the job's payments is at least actual_cost (unset: 0);
\* when the sum is below, invoice_status and paid_at stay as they were.
C5_PaymentReconciles ==
    \A j \in DOMAIN jobs, x \in Amounts, m \in MethodInputs, now \in Times :
        (/\ jobs[j].status = "Completed"
         /\ add_payment_response(j, m).code = 303
         /\ Len(payments) < MaxPayments)
        => ENABLED (/\ add_payment(j, x, m, now)
                    /\ payments' = OnePaymentMore(payments, j, x, m, now)
                    /\ IF TotalPaid(payments', j) >= InvoiceTotal(jobs[j])
                       THEN /\ jobs'[j].invoice_status = "Paid"
                            /\ jobs'[j].paid_at = IsoformatZ(now)
                       ELSE /\ jobs'[j].invoice_status = jobs[j].invoice_status
                            /\ jobs'[j].paid_at = jobs[j].paid_at)

\* the scenario of two part payments: a Completed job of cost 2 received 1
\* (not Paid yet) and then 1, and is Paid as of the second payment
C5_Witness ==
    \E j \in DOMAIN jobs :
        /\ jobs[j].status = "Completed"
        /\ jobs[j].actual_cost = 2
        /\ Len(payments) = 2
        /\ payments[1] = [job_id |-> j, amount |-> 1, method |-> "Cash", paid_at |-> IsoformatZ(Time1)]
        /\ payments[2] = [job_id |-> j, amount |-> 1, method |-> "Cash", paid_at |-> IsoformatZ(Time2)]
        /\ jobs[j].invoice_status = "Paid"
        /\ jobs[j].paid_at = IsoformatZ(Time2)

\* the response the specification calls PreconditionFailed
PreconditionFailed == Response(400, "Job must be completed first", 0)

\* C6: markInvoiceSent and recordPayment on a job whose status is not
\* Completed both fail with PreconditionFailed and change nothing.
C6_InvoiceNeedsCompleted ==
    \A j \in DOMAIN jobs :
        jobs[j].status # "Completed" =>
           /\ mark_invoice_sent_response(j) = PreconditionFailed
           /\ \A now \in Times : ~ENABLED (mark_invoice_sent(j, now) /\ ~UNCHANGED vars)
           /\ \A m \in MethodInputs : add_payment_response(j, m) = PreconditionFailed
           /\ \A x \in Amounts, m \in MethodInputs, now \in Times :
                 ~ENABLED (add_payment(j, x, m, now) /\ ~UNCHANGED vars)

(* ------------------------------------------------------------------ *)
(* Job lifecycle                                                        *)
(* ------------------------------------------------------------------ *)

\* C7: Completed is terminal: updateStatus on a Completed job fails with
\* InvalidState and the status stays Completed, whatever status is asked.
C7_CompletedIsTerminal ==
    \A j \in DOMAIN jobs, s \in StatusInputs :
        jobs[j].status = "Completed" =>
           /\ update_job_status_response(j, s).code = 400
           /\ ~ENABLED (update_job_status(j, s) /\ jobs'[j].status # "Completed")

\* the response the specification calls InvalidState
InvalidState == Response(400, "Cannot edit a completed job", 0)

\* C8: an edit (or assignMembers) call on a Completed job fails with
\* InvalidState and leaves the job row and its roster unchanged.
C8_CompletedJobNotEditable ==
    \A j \in DOMAIN jobs, c \in ClientIds, d \in Details, s \in DateInputs,
       w \in CrewInputs, ms \in EditLists :
        jobs[j].status = "Completed" =>
           /\ update_job_response(j, s, ms) = InvalidState
           /\ ~ENABLED (update_job(j, c, d, s, "", w, ms) /\ ~UNCHANGED <<jobs, job_members>>)

\* C9: every job whose status is not Completed has actual_hours and
\* actual_cost both null.
C9_ActualsNullUntilCompleted ==
    \A j \in DOMAIN jobs :
        jobs[j].status # "Completed" =>
           jobs[j].actual_hours = NullNum /\ jobs[j].actual_cost = NullNum

\* C10: every job's status is one of Scheduled, In progress, Completed.
C10_StatusInEnumeration ==
    \A j \in DOMAIN jobs : jobs[j].status \in {"Scheduled", "In progress", "Completed"}

(* ------------------------------------------------------------------ *)
(* Validation of the posted status                                      *)
(* ------------------------------------------------------------------ *)

\* the response the specification calls ValidationError, for a status
ValidationError == Response(400, "Invalid status", 0)

\* C11: updateStatus with a newStatus outside {Scheduled, In progress,
\* Completed} fails with ValidationError and leaves the job's status and
\* every other field (and every other record) unchanged.
C11_BadStatusRejected ==
    \A j \in DOMAIN jobs, s \in StatusInputs :
        s \notin {"Scheduled", "In progress", "Completed"} =>
           /\ update_job_status_response(j, s) = ValidationError
           /\ ~ENABLED (update_job_status(j, s) /\ ~UNCHANGED vars)

\* a job in progress is asked to become Cancelled: the request is
\* rejected and the job stays as it is
C11_Witness ==
    /\ 1 \in DOMAIN jobs
    /\ jobs[1].status = "In progress"
    /\ update_job_status_response(1, "Cancelled").code = 400
    /\ ENABLED (update_job_status(1, "Cancelled") /\ UNCHANGED vars)
(* ------------------------------------------------------------------ *)
(* Quote workflow: send, decline, and the terminal states               *)
(* ------------------------------------------------------------------ *)

\* the responses the specification calls InvalidTransition
SendInvalidTransition == Response(400, "Only draft quotes can be marked as sent", 0)
DeclineInvalidTransition == Response(400, "Quote already accepted or declined", 0)
AcceptInvalidTransition == Response(400, "Cannot accept a declined quote", 0)

\* C12: send succeeds only on a quote whose status is Draft and then sets
\* the status to Sent; on a quote in Sent, Accepted or Declined it fails
\* with InvalidTransition and leaves the quote unchanged.
C12_SendOnlyFromDraft ==
    \A q \in DOMAIN quotes :
        IF quotes[q].status = "Draft"
        THEN /\ send_quote_response(q).code = 303
             /\ ENABLED (/\ send_quote(q)
                         /\ quotes' = [quotes EXCEPT ![q].status = "Sent"])
        ELSE /\ send_quote_response(q) = SendInvalidTransition
             /\ ~ENABLED (send_quote(q) /\ quotes' # quotes)

\* C13: decline succeeds on a quote in Draft or Sent and sets its status to
\* Declined without creating a Job; on a quote in Accepted or Declined it
\* fails with InvalidTransition and leaves the quote's status and job_id
\* unchanged.
C13_DeclineFromDraftOrSent ==
    \A q \in DOMAIN quotes :
        IF quotes[q].status \in {"Draft", "Sent"}
        THEN /\ decline_quote_response(q).code = 303
             /\ ENABLED (/\ decline_quote(q)
                         /\ quotes' = [quotes EXCEPT ![q].status = "Declined"]
                         /\ jobs' = jobs)
        ELSE /\ decline_quote_response(q) = DeclineInvalidTransition
             /\ ~ENABLED (decline_quote(q) /\ ~UNCHANGED <<quotes, jobs>>)

\* C14: accept on a Declined quote fails with InvalidTransition, creates no
\* Job, and leaves the quote's status Declined and its job_id null.
C14_AcceptDeclinedFails ==
    \A q \in DOMAIN quotes, now \in Times :
        quotes[q].status = "Declined" =>
           /\ accept_quote_response(q, now) = AcceptInvalidTransition
           /\ quotes[q].job_id = NullNum
           /\ ~ENABLED (accept_quote(q, now) /\ ~UNCHANGED <<quotes, jobs>>)
\* one send, decline or accept call, on any quote
QuoteCall ==
    \/ \E p \in QuoteIds : send_quote(p)
    \/ \E p \in QuoteIds : decline_quote(p)
    \/ \E p \in QuoteIds, now \in Times : accept_quote(p, now)

\* C15: Accepted and Declined are absorbing quote states.  No send,
\* decline or accept call (on any quote) changes the status or the job_id
\* of a quote that is Accepted, so over any sequence of such calls a quote
\* becomes Accepted at most once and then keeps its job reference; and no
\* such call changes the status of a Declined quote or gives it a job_id.
C15_TerminalQuoteStates ==
    \A q \in DOMAIN quotes :
        /\ quotes[q].status = "Accepted" =>
              ~ENABLED (/\ QuoteCall
                        /\ \/ quotes'[q].status # "Accepted"
                           \/ quotes'[q].job_id # quotes[q].job_id)
        /\ quotes[q].status = "Declined" =>
              /\ quotes[q].job_id = NullNum
              /\ ~ENABLED (/\ QuoteCall
                           /\ \/ quotes'[q].status # "Declined"
                              \/ quotes'[q].job_id # NullNum)

\* quote 1 was accepted into a job and quote 2 declined, the other quote
\* can still be acted on, and a further accept of each changes nothing
C15_Witness ==
    /\ DOMAIN quotes = {1, 2}
    /\ quotes[1].status = "Accepted" /\ quotes[1].job_id \in DOMAIN jobs
    /\ quotes[2].status = "Declined"
    /\ fetch_quote(1) /\ fetch_quote(2)
    /\ ENABLED (accept_quote(1, Time2) /\ UNCHANGED vars)
    /\ ENABLED (accept_quote(2, Time2) /\ UNCHANGED vars)
(* ------------------------------------------------------------------ *)
(* Deleting clients, crews and members                                  *)
(* ------------------------------------------------------------------ *)

\* the response the specification calls ConflictError: the redirect to the
\* client's page with error=has_jobs
ConflictError(c) == Response(303, "has_jobs", c)

\* C16: deleting a Client that at least one Job references fails with
\* ConflictError and leaves the Client and all its Jobs in place; deleting
\* a Client that no Job references succeeds and removes the Client.
C16_ClientWithJobsKept ==
    \A c \in clients :
        IF \E j \in DOMAIN jobs : jobs[j].client_id = c
        THEN /\ delete_client_response(c) = ConflictError(c)
             /\ ~ENABLED (delete_client(c) /\ ~UNCHANGED <<clients, jobs>>)
        ELSE /\ delete_client_response(c) = Redirect(0)
             /\ ENABLED (/\ delete_client(c)
                         /\ clients' = clients \ {c}
                         /\ jobs' = jobs)

\* client 1 has a job, and a delete request for it is answered with the
\* conflict and changes nothing
C16_Witness ==
    /\ 1 \in clients
    /\ \E j \in DOMAIN jobs : jobs[j].client_id = 1
    /\ delete_client_response(1) = ConflictError(1)
    /\ ENABLED (delete_client(1) /\ UNCHANGED vars)
\* C17: deleting a Crew that Jobs reference succeeds: afterwards the Crew
\* is gone, every Job that referenced it has a null crew reference, the set
\* of Jobs is unchanged, and the crew reference of every Job that pointed
\* to another Crew (or to none) is unchanged, as is the rest of every Job.
C17_CrewDeleteNullsReference ==
    \A c \in crews :
        /\ delete_crew_response(c).code = 303
        /\ ENABLED (/\ delete_crew(c)
                    /\ crews' = crews \ {c}
                    /\ DOMAIN jobs' = DOMAIN jobs
                    /\ \A j \in DOMAIN jobs :
                          jobs'[j] = [jobs[j] EXCEPT !.crew_id =
                                         IF jobs[j].crew_id = c THEN NullNum ELSE @])

\* crew 1 has job 1 while job 2 names another crew id: deleting crew 1
\* nulls the reference of job 1 and keeps that of job 2
C17_Witness ==
    /\ 1 \in crews
    /\ DOMAIN jobs = {1, 2}
    /\ jobs[1].crew_id = 1
    /\ jobs[2].crew_id = 2
    /\ ENABLED (/\ delete_crew(1)
                /\ crews' = {}
                /\ jobs'[1].crew_id = NullNum
                /\ jobs'[2].crew_id = 2)

\* C18: deleting a Member removes the Member and every Job-Member
\* association row naming it, and leaves the set of Jobs and the
\* associations of all other Members unchanged.
C18_MemberDeleteRemovesRoster ==
    \A m \in members :
        /\ delete_member_response(m).code = 303
        /\ ENABLED (/\ delete_member(m)
                    /\ members' = members \ {m}
                    /\ \A jm \in job_members' : jm[2] # m
                    /\ \A jm \in job_members : jm[2] # m => jm \in job_members'
                    /\ job_members' \subseteq job_members
                    /\ jobs' = jobs)

\* member 1 is on the roster of job 1 next to another member id: deleting
\* member 1 removes its row and keeps the other
C18_Witness ==
    /\ 1 \in members
    /\ <<1, 1>> \in job_members
    /\ <<1, 2>> \in job_members
    /\ ENABLED (/\ delete_member(1)
                /\ members' = {}
                /\ <<1, 1>> \notin job_members'
                /\ <<1, 2>> \in job_members')

(* ------------------------------------------------------------------ *)
(* Requests that name a job                                             *)
(* ------------------------------------------------------------------ *)

\* the response the specification calls NotFound, for a job
JobNotFound == Response(404, "Job not found", 0)

\* C19: every operation that takes a job identifier (updateStatus,
\* complete, addTask, edit, notifyOnMyWay, markInvoiceSent, recordPayment)
\* fails with NotFound when no Job with that identifier exists, and then
\* creates or changes no record.
C19_MissingJobIsNotFound ==
    \A j \in JobIds :
        j \notin DOMAIN jobs =>
           /\ add_task_response(j) = JobNotFound
           /\ ~ENABLED (add_task(j) /\ ~UNCHANGED vars)
           /\ \A s \in StatusInputs \cap allowed_statuses :
                 /\ update_job_status_response(j, s) = JobNotFound
                 /\ ~ENABLED (update_job_status(j, s) /\ ~UNCHANGED vars)
           /\ \A a \in Actuals, s \in StatusInputs :
                 /\ complete_job_response(j, s) = JobNotFound
                 /\ ~ENABLED (complete_job(j, a, s) /\ ~UNCHANGED vars)
           /\ \A c \in ClientIds, d \in Details, ms \in EditLists :
                 /\ update_job_response(j, "2024-05-01", ms) = JobNotFound
                 /\ ~ENABLED (update_job(j, c, d, "2024-05-01", "", NullNum, ms) /\ ~UNCHANGED vars)
           /\ notify_customer_response(j) = JobNotFound
           /\ ~ENABLED (notify_customer(j, Time1) /\ ~UNCHANGED vars)
           /\ mark_invoice_sent_response(j) = JobNotFound
           /\ ~ENABLED (mark_invoice_sent(j, Time1) /\ ~UNCHANGED vars)
           /\ \A x \in Amounts, m \in MethodInputs :
                 /\ add_payment_response(j, m) = JobNotFound
                 /\ ~ENABLED (add_payment(j, x, m, Time1) /\ ~UNCHANGED vars)
(* ------------------------------------------------------------------ *)
(* Writers of the actuals                                               *)
(* ------------------------------------------------------------------ *)

\* one call of an operation other than complete, on any job, quote,
\* client, crew or member
OtherOperation ==
    \/ \E c \in ClientIds : delete_client(c)
    \/ \E c \in CrewIds : delete_crew(c)
    \/ \E m \in MemberIds : delete_member(m)
    \/ \E c \in ClientIds, d \in Details, s \in DateInputs, w \in CrewInputs, ms \in EditLists :
          create_job(c, d, s, "Team A", w, ms)
    \/ \E q \in QuoteIds, now \in Times : accept_quote(q, now)
    \/ \E j \in JobIds, c \in ClientIds, d \in Details, s \in DateInputs,
          w \in CrewInputs, ms \in EditLists : update_job(j, c, d, s, "", w, ms)
    \/ \E j \in JobIds, s \in StatusInputs : update_job_status(j, s)
    \/ \E j \in JobIds, now \in Times : notify_customer(j, now)
    \/ \E j \in JobIds, now \in Times : mark_invoice_sent(j, now)
    \/ \E j \in JobIds, x \in Amounts, m \in MethodInputs, now \in Times :
          add_payment(j, x, m, now)

\* the actuals differ between the rows a and b
ActualsDiffer(a, b) ==
    a.actual_hours # b.actual_hours \/ a.actual_cost # b.actual_cost

\* a row without actuals
NoActuals(job) == job.actual_hours = NullNum /\ job.actual_cost = NullNum

\* C20: complete is the sole writer of actual_hours and actual_cost: every
\* other operation (create, accept, edit, updateStatus, notifyOnMyWay,
\* markInvoiceSent, recordPayment, the deletes) leaves both fields of every
\* job unchanged and inserts jobs without them, and a job without actuals
\* that is set to Completed through updateStatus keeps them null.
C20_CompleteSoleWriterOfActuals ==
    /\ ~ENABLED (/\ OtherOperation
                 /\ \/ \E j \in DOMAIN jobs : ActualsDiffer(jobs'[j], jobs[j])
                    \/ \E j \in DOMAIN jobs' \ DOMAIN jobs : ~NoActuals(jobs'[j]))
    /\ \A j \in DOMAIN jobs :
          NoActuals(jobs[j]) =>
             ENABLED (/\ update_job_status(j, "Completed")
                      /\ jobs'[j].status = "Completed"
                      /\ NoActuals(jobs'[j]))

\* job 1 was completed with actuals, reopened, edited, completed again
\* through updateStatus, notified, invoiced and paid, and still has the
\* actuals of its completion; job 2 came from a quote and was completed
\* through updateStatus, without actuals
C20_Witness ==
    /\ DOMAIN jobs = {1, 2}
    /\ jobs[1].actual_hours = Actual1.actual_hours
    /\ jobs[1].actual_cost = Actual1.actual_cost
    /\ jobs[1].description = Detail2.description
    /\ jobs[1].status = "Completed"
    /\ jobs[1].on_my_way_sent_at # NULL
    /\ jobs[1].invoice_status = "Paid"
    /\ DOMAIN quotes = {1} /\ quotes[1].job_id = 2
    /\ jobs[2].status = "Completed"
    /\ NoActuals(jobs[2])
(* ------------------------------------------------------------------ *)
(* The payments table                                                   *)
(* ------------------------------------------------------------------ *)

\* one call of an operation other than recordPayment
NonPaymentOperation ==
    \/ create_client \/ create_crew \/ create_member
    \/ \E c \in ClientIds : delete_client(c)
    \/ \E c \in CrewIds : delete_crew(c)
    \/ \E m \in MemberIds : delete_member(m)
    \/ \E c \in ClientIds : create_quote(c, Detail1, Time1)
    \/ \E q \in QuoteIds : accept_quote(q, Time1) \/ decline_quote(q) \/ send_quote(q)
    \/ \E c \in ClientIds, s \in DateInputs, ms \in EditLists :
          create_job(c, Detail1, s, "Team A", NullNum, ms)
    \/ \E j \in JobIds, c \in ClientIds, s \in DateInputs, ms \in EditLists :
          update_job(j, c, Detail2, s, "", NullNum, ms)
    \/ \E j \in JobIds, s \in StatusInputs : update_job_status(j, s)
    \/ \E j \in JobIds, a \in Actuals, s \in StatusInputs : complete_job(j, a, s)
    \/ \E j \in JobIds : notify_customer(j, Time1) \/ mark_invoice_sent(j, Time1) \/ add_task(j)
    \/ \E t \in TaskIds : toggle_task(t)

\* C21: payments are append-only.  No operation other than recordPayment
\* changes the payments table; a recordPayment call that fails leaves it
\* as it is, and one that succeeds appends exactly one row and keeps every
\* row recorded before (its job, amount, method and paid_at) in place.
C21_PaymentsAppendOnly ==
    /\ ~ENABLED (NonPaymentOperation /\ payments' # payments)
    /\ \A j \in JobIds, x \in Amounts, m \in MethodInputs, now \in Times :
          IF add_payment_response(j, m).code = 303
          THEN ~ENABLED (/\ add_payment(j, x, m, now)
                         /\ payments' # OnePaymentMore(payments, j, x, m, now))
          ELSE ~ENABLED (add_payment(j, x, m, now) /\ payments' # payments)

\* a job has one payment on record and a second payment for it is
\* appended behind the first
C21_Witness ==
    /\ Len(payments) = 1
    /\ ENABLED (/\ add_payment(payments[1].job_id, 1, "Cash", Time2)
                /\ Len(payments') = 2
                /\ payments'[1] = payments[1]
                /\ payments'[2].job_id = payments[1].job_id)
\* C22: for every job, totalPaid (the sum of its Payment amounts) is
\* monotonically non-decreasing over any sequence of operations, for every
\* amount that recordPayment accepts: no call of any operation lowers it.
C22_TotalPaidMonotonic ==
    \A j \in DOMAIN jobs :
        /\ ~ENABLED (NonPaymentOperation /\ TotalPaid(payments', j) < TotalPaid(payments, j))
        /\ \A k \in JobIds, x \in Amounts, m \in MethodInputs, now \in Times :
              ~ENABLED (/\ add_payment(k, x, m, now)
                        /\ TotalPaid(payments', j) < TotalPaid(payments, j))
(* ------------------------------------------------------------------ *)
(* Concurrent requests                                                  *)
(* ------------------------------------------------------------------ *)

\* the payment row request slot c asked for
PaymentOf(c) ==
    [job_id |-> c.id, amount |-> c.amount, method |-> c.method, paid_at |-> c.now]

\* both requests were recordPayment calls on job j and have finished with success
BothPaid(j) ==
    \A p \in Procs :
        /\ calls[p].pc = "done"
        /\ calls[p].created # 0
        /\ calls[p].id = j
        /\ calls[p].response = Redirect(j)

\* C23: for every interleaving of the steps (precondition read, payment
\* insert, total recomputation, status write) of two concurrent
\* recordPayment calls on the same Completed job, once both calls have
\* finished both payments are recorded and, if the job's total is at least
\* actual_cost, invoice_status is Paid.
C23_ConcurrentPaymentsLatch ==
    \A j \in DOMAIN jobs :
        BothPaid(j) =>
           /\ calls[1].created # calls[2].created
           /\ \A p \in Procs :
                 /\ calls[p].created \in DOMAIN payments
                 /\ payments[calls[p].created] = PaymentOf(calls[p])
           /\ TotalPaid(payments, j) >= InvoiceTotal(jobs[j]) =>
                 jobs[j].invoice_status = "Paid"

\* two payments of 1 on a job of cost 2 have both finished; one of the
\* requests computed its total before the other inserted (it saw 1, below
\* the cost, and wrote nothing) and finished last; the job is Paid
C23_Witness ==
    \E j \in DOMAIN jobs :
        /\ BothPaid(j)
        /\ jobs[j].actual_cost = 2
        /\ calls[1].amount = 1 /\ calls[2].amount = 1
        /\ calls[1].total = 1 /\ calls[2].total = 2
        /\ jobs[j].invoice_status = "Paid"
        /\ jobs[j].paid_at = calls[2].now
        /\ calls[1].now # calls[2].now
\* request p has inserted its job and not yet written its quote
JobInsertedOnly(p) == calls[p].pc \in {"accept_select", "accept_update"}

\* C24: accept is atomic: its Job creation and its Quote update commit
\* together or not at all, so no state contains the Job an accept has
\* newly created while its quote is still Draft or Sent with a null job_id.
C24_AcceptAtomic ==
    \A p \in Procs :
        JobInsertedOnly(p) =>
           ~(/\ quotes[calls[p].id].status \in {"Draft", "Sent"}
             /\ quotes[calls[p].id].job_id = NullNum)

\* both requests are accept calls on quote q that have finished with success
BothAccepted(q) ==
    \A p \in Procs :
        /\ calls[p].pc = "done"
        /\ calls[p].id = q
        /\ calls[p].response.code = 303

\* C25: when two accept calls on the same Draft or Sent quote run
\* concurrently, at most one Job is created from that quote and both
\* calls return the same job id, under every interleaving of their read,
\* insert and update steps.
C25_ConcurrentAcceptOneJob ==
    \A q \in DOMAIN quotes :
        BothAccepted(q) =>
           /\ calls[1].created = 0 \/ calls[2].created = 0
           /\ calls[1].response = calls[2].response

\* C26: after accept finishes, the quote's job_id is the identity of the
\* Job that this accept created from this quote (same client, description
\* and estimates), also when another job-creating operation (create job,
\* or accept of a different quote) runs between accept's job insert and
\* its lookup of the new job's id.
C26_AcceptLinksItsOwnJob ==
    \A p \in Procs :
        (/\ calls[p].pc = "done"
         /\ calls[p].created # 0
         /\ \A r \in Procs \ {p} : calls[r].id # calls[p].id)
        => /\ quotes[calls[p].id].job_id = calls[p].created
           /\ calls[p].response = Redirect(calls[p].created)
           /\ CarriesQuote(jobs[quotes[calls[p].id].job_id], calls[p].quote)
(* ------------------------------------------------------------------ *)
(* The billing basis and the stored invariants                          *)
(* ------------------------------------------------------------------ *)

\* C27: a Completed job is immutable in its billing basis: once a job's
\* status is Completed, no call of any operation, a repeated complete call
\* with different values included, changes its actual_cost or actual_hours.
C27_CompletedActualsFrozen ==
    \A j \in DOMAIN jobs :
        jobs[j].status = "Completed" =>
           /\ \A a \in Actuals, s \in StatusInputs :
                 ~ENABLED (complete_job(j, a, s) /\ ActualsDiffer(jobs'[j], jobs[j]))
           /\ ~ENABLED (OtherOperation /\ ActualsDiffer(jobs'[j], jobs[j]))

\* C28: the paid status is derived from the payments: every job whose
\* invoice_status is Paid has a sum of recorded payments that is at least
\* its actual_cost (unset counting as 0).
C28_PaidMeansCovered ==
    \A j \in DOMAIN jobs :
        jobs[j].invoice_status = "Paid" =>
           TotalPaid(payments, j) >= InvoiceTotal(jobs[j])

\* C29: every job that has a non-null invoice_status, a non-null
\* invoice_sent_at or at least one Payment has status Completed.
C29_BilledMeansCompleted ==
    \A j \in DOMAIN jobs :
        (\/ jobs[j].invoice_status # NULL
         \/ jobs[j].invoice_sent_at # NULL
         \/ \E i \in DOMAIN payments : payments[i].job_id = j)
        => jobs[j].status = "Completed"

\* C30: the client referenced by every Job and by every Quote exists.
C30_ClientsExist ==
    /\ \A j \in DOMAIN jobs : jobs[j].client_id \in clients
    /\ \A q \in DOMAIN quotes : quotes[q].client_id \in clients
(* ------------------------------------------------------------------ *)
(* The roster of a job                                                  *)
(* ------------------------------------------------------------------ *)

\* the members associated with job j in the table jm
Roster(jm, j) == {r[2] : r \in {x \in jm : x[1] = j}}

\* C31: assignMembers on a job that is not Completed replaces the roster
\* wholesale: afterwards the job's set of associated members is exactly
\* the given set of member ids, whatever the previous roster was, and the
\* rosters of all other jobs are unchanged.
C31_RosterReplacedWholesale ==
    \A j \in DOMAIN jobs, c \in ClientIds, d \in Details, w \in {0, 1}, ms \in EditLists :
        (jobs[j].status # "Completed" /\ NoRepeat(ms)) =>
           ENABLED (/\ update_job(j, c, d, "2024-05-01", "", w, ms)
                    /\ Roster(job_members', j) = Range(ms)
                    /\ \A k \in DOMAIN jobs \ {j} :
                          Roster(job_members', k) = Roster(job_members, k))

====
